---------------------------- MODULE Spec2Model ----------------------------
(***************************************************************************)
(* Adaptive Multilevel Splitting estimator: src/scripts/AMS.py, AMS.run.   *)
(*                                                                         *)
(* Arrays keep numpy's 0-based indices: an array of length n is a function *)
(* with domain 0..n-1.  A state vector (time, position) is abstracted to   *)
(* its position, an integer of X, or to NaN when any component is NaN.     *)
(* Scores are exact rationals held in units of 1/ScoreOne, and the weight  *)
(* w is the exact fraction num/den.                                        *)
(***************************************************************************)
EXTENDS Integers, FiniteSets, Sequences, TLC

VARIABLES
    N_traj, nc,          \* self.N_traj, self.nc (line 12)
    init_state, zmax,    \* arguments of run (line 53)
    gen,                 \* contract the injected generator obeys:
                         \*   "prefix": every path is defined on a non-empty
                         \*             prefix of its steps
                         \*   "any":    a path may also be NaN from step 0
    pc,                  \* position in run: "start" (line 86), "test" (108),
                         \*   "select" (110), "regen" (122), "grow" (136),
                         \*   "merge" (145), "count" (163), "done" (returned),
                         \*   "error" (an exception left run)
    err,                 \* the exception raised, "none" if none
    traj, score,         \* the ensemble traj[s][t] (line 94), score[s][t] (101)
    Nt, max_Nt,          \* lines 97-99
    Q,                   \* line 106
    k, w,                \* line 86
    threshold,           \* line 110
    idx, other_idx,      \* line 111
    Q_min,               \* line 112
    new_ind,             \* line 118
    restart,             \* line 119
    init_clone,          \* line 120
    new_traj, new_score, \* lines 122-123
    new_nt, new_max,     \* lines 127-132
    i,                   \* line 145: next index of the merge loop
    discards,            \* history: len(idx) of every executed iteration
    result               \* the returned dict (lines 166-173)

vars == << N_traj, nc, init_state, zmax, gen, pc, err, traj, score, Nt, max_Nt,
           Q, k, w, threshold, idx, other_idx, Q_min, new_ind, restart,
           init_clone, new_traj, new_score, new_nt, new_max, i, discards,
           result >>

(***************************************************************************)
(* Bounds of the model.                                                    *)
(***************************************************************************)
XMax == 3        \* positions 0..XMax
MaxIter == 2     \* iterations of the resampling loop that are explored

(***************************************************************************)
(* Values.                                                                 *)
(***************************************************************************)
NaN == -100      \* np.nan, the padding marker
ScoreOne == 4    \* the score 1 in model units (the score 0 is 0)
OffFrom == 3     \* positions >= OffFrom are the target region B
GenT == 3        \* the generator's maximum length: the allocated time length
                 \* of every batch it returns

X == 0..XMax
None == << >>

Min(S) == CHOOSE m \in S : \A e \in S : m <= e
Max(S) == CHOOSE m \in S : \A e \in S : m >= e

len(a) == Cardinality(DOMAIN a)

\* comparisons of floats: any comparison with NaN is False
Le(a, b) == a # NaN /\ b # NaN /\ a <= b
Gt(a, b) == a # NaN /\ b # NaN /\ a > b
Ge(a, b) == a # NaN /\ b # NaN /\ a >= b


(***************************************************************************)
(* The injected collaborators (DoubleWell_Model, Score_Function): pure     *)
(* functions of a state.                                                   *)
(***************************************************************************)
\* score function: linear in the position, NaN on padding
comp_score(x) == IF x = NaN THEN NaN ELSE 2 * x - 1

\* region classifier: start region A, target region B
is_on(x) == x # NaN /\ x <= 0
is_off(x) == x # NaN /\ x >= OffFrom

\* trajectory generator: a walk from the initial state, of any natural
\* length 1..GenT, padded with NaN to the allocated length GenT
Walks == { p \in [0..GenT-1 -> X] :
             \A t \in 1..GenT-1 : p[t] \in {p[t-1] - 1, p[t-1] + 1} }
PrefixPaths == { [t \in 0..GenT-1 |-> IF t < n THEN p[t] ELSE NaN] :
                   p \in Walks, n \in 1..GenT }
AllNaN == [t \in 0..GenT-1 |-> NaN]
\* the deterministic generator of the convergence scenario: a counter that
\* advances by +1 per step (held at the last valid coordinate)
CounterPath(x0) == [t \in 0..GenT-1 |-> Min({x0 + t, XMax})]
GenPaths(x0, mode) ==
    IF x0 = NaN THEN {AllNaN}
    ELSE IF mode = "counter" THEN {CounterPath(x0)}
    ELSE {p \in PrefixPaths : p[0] = x0}
           \cup (IF mode = "any" THEN {AllNaN} ELSE {})

\* comp_traj(m, init): every batch of m paths the generator may return
RECURSIVE comp_traj(_, _, _)
comp_traj(m, init, mode) ==
    IF m = 0 THEN { << >> }
    ELSE { b @@ ((m-1) :> p) :
             b \in comp_traj(m-1, init, mode), p \in GenPaths(init[m-1], mode) }

(***************************************************************************)
(* numpy operations used by run.                                           *)
(***************************************************************************)
\* np.argmax(np.isnan(row)): the first NaN, 0 when there is none
FirstNaN(row) ==
    LET S == {t \in DOMAIN row : row[t] = NaN}
    IN  IF S = {} THEN 0 ELSE Min(S)

\* lines 97-98: a first-NaN index of 0 is read as "no NaN"
InitLength(row) ==
    LET n == FirstNaN(row) IN IF n = 0 THEN len(row) ELSE n

\* lines 127-128: the allocated length only when the row holds no NaN
NewLength(row) ==
    IF \A t \in DOMAIN row : row[t] # NaN THEN len(row) ELSE FirstNaN(row)

\* np.nanmax(row): NaN when every entry is NaN
nanmax(row) ==
    LET D == {row[t] : t \in DOMAIN row} \ {NaN}
    IN  IF D = {} THEN NaN ELSE Max(D)

\* ascending array of the elements of S, NaN last
SortedArr(S) ==
    [j \in 0..Cardinality(S)-1 |->
        CHOOSE e \in S :
            Cardinality({e2 \in S \ {NaN} : e = NaN \/ e2 < e}) = j]

\* np.unique(q): sorted distinct values, all NaN collapsed into one at the end
unique(q) == SortedArr({q[s] : s \in DOMAIN q})

\* np.flatnonzero(mask)
flatnonzero(S) == SortedArr(S)

\* score[onzone], score[offzone] = 0, 1 at one entry (the second store wins)
Override(x, s) == IF is_off(x) THEN ScoreOne ELSE IF is_on(x) THEN 0 ELSE s

\* np.concatenate((row, np.full(n, np.nan)))
PadRow(row, n) ==
    [t \in 0..len(row)+n-1 |-> IF t < len(row) THEN row[t] ELSE NaN]

\* np.nanargmax(row >= q): the first True, 0 when there is none
FirstReach(row, q) ==
    LET S == {t \in DOMAIN row : Ge(row[t], q)}
    IN  IF S = {} THEN 0 ELSE Min(S)

Slots == 0..N_traj-1
Shape1(a) == len(a[0])

Range(a) == {a[j] : j \in DOMAIN a}

(***************************************************************************)
(* Pieces of the loop body, as run computes them.                          *)
(***************************************************************************)
\* mutant of LoopCond: the slots are counted, not their distinct Q values
LoopCondCount(q, n) == len(q) > n

\* mutant of LoopCond: >= for >
LoopCondGe(q, n) == len(unique(q)) >= n

\* line 108: while len(np.unique(Q)) > self.nc
LoopCond(q, n) == len(unique(q)) > n

\* line 110: np.unique(Q)[self.nc-1]; a negative index counts from the end
ThresholdIndex(q, n) ==
    IF n - 1 >= 0 THEN n - 1 ELSE len(unique(q)) + n - 1

\* mutant of DiscardSet: the mask Q<threshold
DiscardSetStrict(q, thr) == {s \in DOMAIN q : q[s] # NaN /\ thr # NaN /\ q[s] < thr}

\* line 111: the masks Q<=threshold and Q>threshold
DiscardSet(q, thr) == {s \in DOMAIN q : Le(q[s], thr)}
\* mutant of SourceSet: trajectories at the threshold are sources too
SourceSetGe(q, thr) == {s \in DOMAIN q : Ge(q[s], thr)}

\* mutant of SourceSet: every slot is a candidate source
SourceSetAll(q, thr) == DOMAIN q

SourceSet(q, thr) == {s \in DOMAIN q : Gt(q[s], thr)}

\* mutant of WeightUpdate: w *= (1+len(idx)/N)
WeightUpdatePlus(weight, m, n) ==
    [num |-> weight.num * (n + m), den |-> weight.den * n]

\* line 115: w *= (1-len(idx)/self.N_traj)
WeightUpdate(weight, m, n) ==
    [num |-> weight.num * (n - m), den |-> weight.den * n]

\* mutant of RestartIndex: the last qualifying step instead of the first
\* mutant of RestartIndex: the clone restarts from the source's first step
RestartIndexZero(row, q) == 0

RestartIndexLast(row, q) ==
    LET S == {t \in DOMAIN row : Ge(row[t], q)}
    IN  IF S = {} THEN 0 ELSE Max(S)

\* line 119: np.nanargmax(score[new_ind]>=Q_min[:,np.newaxis], axis=1)
RestartIndex(row, q) == FirstReach(row, q)

\* lines 101-104 and 154-157 on one row: raw scores in, overridden scores out
ApplyRegions(trow, srow) ==
    [t \in DOMAIN srow |-> Override(trow[t], srow[t])]

\* lines 154-157: the override applied again to the rewritten row t
\* mutant of Rescore: the override is not applied after the merge
RescoreSkipped(trow, srow) == srow

Rescore(trow, srow) == ApplyRegions(trow, srow)

\* mutant of GrowRows: one column too few is added
GrowRowsShort(a, n) == [s \in DOMAIN a |-> PadRow(a[s], n - 1)]

\* mutant of GrowRows: the padding is put in front of every row
GrowRowsFront(a, n) ==
    [s \in DOMAIN a |->
        [t \in 0..len(a[s])+n-1 |-> IF t < n THEN NaN ELSE a[s][t - n]]]

\* lines 138 and 141: pad every row with n NaN
GrowRows(a, n) == [s \in DOMAIN a |-> PadRow(a[s], n)]

\* mutant of MergeRow: the continuation is stored one step late
MergeRowShifted(old, src, new, r, l) ==
    [t \in DOMAIN old |->
        IF t <= r THEN src[t]
        ELSE IF r + 1 < t /\ t < r + l + 1 /\ (t - r - 1) \in DOMAIN new
             THEN new[t - r - 1]
        ELSE old[t]]

\* mutant of MergeRow: the source prefix is not copied
MergeRowNoPrefix(old, src, new, r, l) ==
    [t \in DOMAIN old |->
        IF t <= r THEN old[t]
        ELSE IF t < r + l /\ (t - r) \in DOMAIN new THEN new[t - r]
        ELSE old[t]]

\* lines 148-149 / 151-152: row t after the two slice stores; slices are
\* clipped to the row, and entries from r+l on are not written
MergeRow(old, src, new, r, l) ==
    [t \in DOMAIN old |->
        IF t <= r THEN src[t]
        ELSE IF t < r + l /\ (t - r) \in DOMAIN new THEN new[t - r]
        ELSE old[t]]

\* mutant of CountCollapse: Q>zmax
CountCollapseStrict(q, z) == Cardinality({s \in DOMAIN q : Gt(q[s], z)})

\* line 163: np.count_nonzero(Q>=zmax)
CountCollapse(q, z) == Cardinality({s \in DOMAIN q : Ge(q[s], z)})

\* mutant of Probability: the division by N_traj is missing
ProbabilityNoDivision(weight, c, n) == [num |-> weight.num * c, den |-> weight.den]

\* line 167: w*count_collapse/self.N_traj
Probability(weight, c, n) == [num |-> weight.num * c, den |-> weight.den * n]

(***************************************************************************)
(* Initial states: a constructed estimator and the arguments of run.       *)
(***************************************************************************)
EnsembleSizes == {2, 3}          \* N_traj
\* init_state: every slot in A, every slot next to A, or slot 0 in A and the
\* others next to it
InitStates(n) ==
    { [s \in 0..n-1 |-> 0],
      [s \in 0..n-1 |-> 1],
      [s \in 0..n-1 |-> IF s = 0 THEN 0 ELSE 1] }
ZMaxValues == {ScoreOne, 3}      \* zmax: the default 1, and 3/4

InitLocals ==
    /\ pc = "start" /\ err = "none"
    /\ traj = None /\ score = None /\ Nt = None /\ max_Nt = 0 /\ Q = None
    /\ k = 0 /\ w = [num |-> 1, den |-> 1]
    /\ threshold = NaN /\ idx = None /\ other_idx = None /\ Q_min = None
    /\ new_ind = None /\ restart = None /\ init_clone = None
    /\ new_traj = None /\ new_score = None /\ new_nt = None /\ new_max = 0
    /\ i = 0 /\ discards = << >> /\ result = None

\* the precondition of run: 1 <= nc < N, and a generator that honours its
\* contract (every path defined on a non-empty prefix of its steps)
Init ==
    /\ N_traj \in EnsembleSizes
    /\ nc \in 1..N_traj-1
    /\ init_state \in InitStates(N_traj)
    /\ zmax \in ZMaxValues
    /\ gen = "prefix"
    /\ InitLocals

(***************************************************************************)
(* run, lines 86-106: the initial ensemble.                                *)
(***************************************************************************)
Generate ==
    /\ pc = "start"
    /\ \E b \in comp_traj(N_traj, init_state, gen) :
         LET sc == [s \in Slots |->
                      ApplyRegions(b[s], [t \in DOMAIN b[s] |-> comp_score(b[s][t])])]
             n  == [s \in Slots |-> InitLength(b[s])]
         IN  /\ traj' = b
             /\ Nt' = n
             /\ max_Nt' = Max(Range(n))
             /\ score' = sc
             /\ Q' = [s \in Slots |-> nanmax(sc[s])]
    /\ k' = 0 /\ w' = [num |-> 1, den |-> 1]
    /\ pc' = "test"
    /\ UNCHANGED << N_traj, nc, init_state, zmax, gen, err, threshold, idx,
                    other_idx, Q_min, new_ind, restart, init_clone, new_traj,
                    new_score, new_nt, new_max, i, discards, result >>

(***************************************************************************)
(* line 108: the loop test.  Iterations beyond MaxIter are not explored.   *)
(***************************************************************************)
LoopTest ==
    /\ pc = "test"
    /\ IF LoopCond(Q, nc)
       THEN k < MaxIter /\ pc' = "select"
       ELSE pc' = "count"
    /\ UNCHANGED << N_traj, nc, init_state, zmax, gen, err, traj, score, Nt,
                    max_Nt, Q, k, w, threshold, idx, other_idx, Q_min, new_ind,
                    restart, init_clone, new_traj, new_score, new_nt, new_max,
                    i, discards, result >>

(***************************************************************************)
(* lines 110-120: threshold, partition, weight, clone sources, restarts.   *)
(***************************************************************************)
Select ==
    /\ pc = "select"
    /\ LET u  == unique(Q)
           jj == ThresholdIndex(Q, nc)
       IN
       IF jj \notin DOMAIN u
       THEN \* IndexError at line 110
            /\ pc' = "error" /\ err' = "IndexError"
            /\ UNCHANGED << threshold, idx, other_idx, Q_min, w, discards,
                            new_ind, restart, init_clone >>
       ELSE LET thr == u[jj]
                ix  == flatnonzero(DiscardSet(Q, thr))
                ox  == flatnonzero(SourceSet(Q, thr))
                qm  == [j \in DOMAIN ix |-> Q[ix[j]]]
            IN  /\ threshold' = thr
                /\ idx' = ix
                /\ other_idx' = ox
                /\ Q_min' = qm
                /\ w' = WeightUpdate(w, len(ix), N_traj)
                /\ discards' = Append(discards, len(ix))
                /\ IF len(ox) = 0 /\ len(ix) > 0
                   THEN \* rng.choice: ValueError, a cannot be empty
                        /\ pc' = "error" /\ err' = "ValueError"
                        /\ UNCHANGED << new_ind, restart, init_clone >>
                   ELSE \E c \in [DOMAIN ix -> Range(ox)] :
                          LET rs == [j \in DOMAIN ix |->
                                       RestartIndex(score[c[j]], qm[j])]
                          IN  /\ new_ind' = c
                              /\ restart' = rs
                              /\ init_clone' =
                                   [j \in DOMAIN ix |-> traj[c[j]][rs[j]]]
                              /\ pc' = "regen" /\ err' = err
    /\ UNCHANGED << N_traj, nc, init_state, zmax, gen, traj, score, Nt, max_Nt,
                    Q, k, new_traj, new_score, new_nt, new_max, i, result >>

(***************************************************************************)
(* lines 122-132: regenerate, score, measure the continuations.            *)
(***************************************************************************)
Regenerate ==
    /\ pc = "regen"
    /\ \E b \in comp_traj(len(idx), init_clone, gen) :
         LET nn == [j \in DOMAIN idx |-> NewLength(b[j])]
             n2 == [s \in Slots |->
                      IF s \in Range(idx)
                      THEN LET j == CHOOSE j \in DOMAIN idx : idx[j] = s
                           IN  restart[j] + nn[j]
                      ELSE Nt[s]]
         IN  /\ new_traj' = b
             /\ new_score' =
                  [j \in DOMAIN idx |-> [t \in DOMAIN b[j] |-> comp_score(b[j][t])]]
             /\ new_nt' = nn
             /\ Nt' = n2
             /\ IF len(idx) = 0
                THEN \* np.max of an empty array at line 132: ValueError
                     /\ pc' = "error" /\ err' = "ValueError"
                     /\ new_max' = new_max
                ELSE /\ new_max' = Max({n2[s] : s \in Range(idx)})
                     /\ pc' = "grow" /\ err' = err
    /\ UNCHANGED << N_traj, nc, init_state, zmax, gen, traj, score, max_Nt, Q,
                    k, w, threshold, idx, other_idx, Q_min, new_ind, restart,
                    init_clone, i, discards, result >>

(***************************************************************************)
(* lines 136-142: grow the storage when a regenerated path is longer.      *)
(***************************************************************************)
Grow ==
    /\ pc = "grow"
    /\ IF new_max > max_Nt
       THEN /\ traj' = GrowRows(traj, new_max - max_Nt)
            /\ score' = GrowRows(score, new_max - max_Nt)
            /\ max_Nt' = new_max
       ELSE UNCHANGED << traj, score, max_Nt >>
    /\ i' = 0
    /\ pc' = "merge"
    /\ UNCHANGED << N_traj, nc, init_state, zmax, gen, err, Nt, Q, k, w,
                    threshold, idx, other_idx, Q_min, new_ind, restart,
                    init_clone, new_traj, new_score, new_nt, new_max, discards,
                    result >>

(***************************************************************************)
(* lines 145-157: one pass of the merge loop, for i in range(len(idx)).    *)
(***************************************************************************)
Merge ==
    /\ pc = "merge"
    /\ i < len(idx)
    /\ LET t  == idx[i]
           r  == restart[i]
           l  == new_nt[i]
           tr == MergeRow(traj[t], traj[new_ind[i]], new_traj[i], r, l)
           sr == MergeRow(score[t], score[new_ind[i]], new_score[i], r, l)
       IN  /\ traj' = [traj EXCEPT ![t] = tr]
           /\ score' = [score EXCEPT ![t] = Rescore(tr, sr)]
    /\ i' = i + 1
    /\ UNCHANGED << N_traj, nc, init_state, zmax, gen, pc, err, Nt, max_Nt, Q,
                    k, w, threshold, idx, other_idx, Q_min, new_ind, restart,
                    init_clone, new_traj, new_score, new_nt, new_max, discards,
                    result >>

(***************************************************************************)
(* lines 160-161: count the iteration and recompute Q.                     *)
(***************************************************************************)
Prepare ==
    /\ pc = "merge"
    /\ i = len(idx)
    /\ k' = k + 1
    /\ Q' = [s \in Slots |-> nanmax(score[s])]
    /\ pc' = "test"
    /\ UNCHANGED << N_traj, nc, init_state, zmax, gen, err, traj, score, Nt,
                    max_Nt, w, threshold, idx, other_idx, Q_min, new_ind,
                    restart, init_clone, new_traj, new_score, new_nt, new_max,
                    i, discards, result >>

(***************************************************************************)
(* lines 163-173: the result record.  Its trajectories and scores are the  *)
(* arrays traj and score themselves.                                       *)
(***************************************************************************)
Finish ==
    /\ pc = "count"
    /\ LET c == CountCollapse(Q, zmax)
       IN  result' = [probability |-> Probability(w, c, N_traj),
                      iterations |-> k,
                      nb_transitions |-> c]
    /\ pc' = "done"
    /\ UNCHANGED << N_traj, nc, init_state, zmax, gen, err, traj, score, Nt,
                    max_Nt, Q, k, w, threshold, idx, other_idx, Q_min, new_ind,
                    restart, init_clone, new_traj, new_score, new_nt, new_max,
                    i, discards >>

Next ==
    \/ Generate
    \/ LoopTest
    \/ Select
    \/ Regenerate
    \/ Grow
    \/ Merge
    \/ Prepare
    \/ Finish

Spec == Init /\ [][Next]_vars

(***************************************************************************)
(* Any configuration and any generator: nc outside 1..N-1 (the constructor *)
(* checks nothing, lines 11-14), and a generator that may return paths     *)
(* with no defined step.                                                   *)
(***************************************************************************)
InitAny ==
    /\ N_traj \in EnsembleSizes \cup {1}
    /\ nc \in -1..4
    /\ init_state \in {a \in InitStates(N_traj) : \A s \in DOMAIN a : a[s] = a[0]}
    /\ zmax = ScoreOne              \* run(init_state), as run_multiple calls it
    /\ gen \in {"prefix", "any"}
    /\ InitLocals

SpecAny == InitAny /\ [][Next]_vars

\* runs of four trajectories driven by the deterministic counter generator,
\* started anywhere below the target region
InitCounter ==
    /\ N_traj = 4
    /\ nc \in 1..N_traj-1
    /\ init_state \in [0..N_traj-1 -> 0..OffFrom-1]
    /\ zmax \in ZMaxValues
    /\ gen = "counter"
    /\ InitLocals

SpecCounter == InitCounter /\ [][Next]_vars

(***************************************************************************)
(* Properties.                                                             *)
(***************************************************************************)
InLoopBody == pc \in {"regen", "grow", "merge"}
QValues == {Q[s] : s \in Slots}

WeightInUnitInterval == w.num > 0 /\ w.den > 0 /\ w.num <= w.den
WeightStartsAtOne == (pc \in {"start", "test"} /\ k = 0) => w.num = w.den
WeightNonIncreasing == w'.num * w.den <= w.num * w'.den

\* C1: with 1 <= nc < N the weight w is 1 when run starts, is in (0, 1] in
\* every state, and no step increases it.
C1_Weight ==
    /\ [](WeightInUnitInterval /\ WeightStartsAtOne)
    /\ [][WeightNonIncreasing]_vars

\* two iterations have run and the weight has dropped below 1 twice
C1_Witness ==
    /\ k >= 2
    /\ Len(discards) = 2
    /\ w.num * N_traj < w.den * (N_traj - discards[1])

\* C2: the loop body is entered only with more than nc distinct Q values,
\* and run leaves the loop only with at most nc distinct Q values.
C2_LoopExactlyWhileDistinctExceedsNc ==
    /\ pc = "select" => Cardinality(QValues) > nc
    /\ pc \in {"count", "done"} => Cardinality(QValues) <= nc

\* run has returned after at least one iteration
C2_Witness == pc = "done" /\ k >= 1 /\ Cardinality(QValues) = nc

\* C3 as claimed: a trajectory whose Q equals the threshold is not discarded.
C3_TiesAtThresholdSurvive ==
    InLoopBody => \A s \in Slots : Q[s] = threshold => s \notin Range(idx)

\* C3 amended: the threshold is the nc-th smallest distinct Q; the discard
\* set is exactly the slots with Q <= threshold, those at the threshold
\* included, and the retained slots are exactly those with Q > threshold.
C3_DiscardAtOrBelowThreshold ==
    InLoopBody =>
        /\ threshold \in QValues
        /\ Cardinality({v \in QValues : v <= threshold}) = nc
        /\ Range(idx) = {s \in Slots : Q[s] <= threshold}
        /\ Range(other_idx) = {s \in Slots : Q[s] > threshold}
        /\ \E s \in Range(idx) : Q[s] = threshold

\* two slots tie at the threshold and both are in the discard set
C3_Witness ==
    /\ InLoopBody
    /\ \E s1, s2 \in Range(idx) :
         s1 # s2 /\ Q[s1] = threshold /\ Q[s2] = threshold

\* the clone operations whose merge is complete: those already passed by the
\* merge loop, and all of the last iteration once the loop has ended
Merged ==
    IF pc = "merge" THEN {j \in DOMAIN idx : j < i}
    ELSE IF pc \in {"test", "select", "count", "done"} /\ k >= 1
         THEN DOMAIN idx
         ELSE {}

\* C4: after the merge, a regenerated slot agrees with its source slot on the
\* trajectory and the score at every step 0..restart.
C4_PrefixEqualsSource ==
    \A j \in Merged :
        \A t \in 0..restart[j] :
            /\ traj[idx[j]][t] = traj[new_ind[j]][t]
            /\ score[idx[j]][t] = score[new_ind[j]][t]

\* an iteration has ended with a clone restarted after step 0 that left its
\* source after the restart step
C4_Witness ==
    /\ pc = "test" /\ k >= 1
    /\ \E j \in DOMAIN idx :
         /\ restart[j] >= 1
         /\ traj[idx[j]] # traj[new_ind[j]]

\* C5 as claimed: after the merge a regenerated slot with restart r and
\* continuation length l holds the source prefix on 0..r, the continuation on
\* r+1..r+l-1 and padding from r+l on, and its Nt is its number of defined
\* steps.
C5_RegeneratedSlotHoldsOnlyItsClone ==
    \A j \in Merged :
        LET s == idx[j]
            r == restart[j]
            n == restart[j] + new_nt[j]
        IN  /\ Nt[s] = n
            /\ \A t \in DOMAIN traj[s] :
                 /\ t <= r => traj[s][t] = traj[new_ind[j]][t]
                 /\ (r < t /\ t < n) => traj[s][t] = new_traj[j][t - r]
                 /\ t < n => (traj[s][t] # NaN /\ score[s][t] # NaN)
                 /\ t >= n => (traj[s][t] = NaN /\ score[s][t] = NaN)

\* C6: the restart index of every (discarded, source) pair is the first step
\* at which the source's score is >= the discarded trajectory's Q, and it is
\* below the source's recorded length Nt.
C6_RestartIsFirstReachInsideSource ==
    InLoopBody =>
        \A j \in DOMAIN idx :
            LET src == new_ind[j]
                r   == restart[j]
            IN  /\ Q_min[j] = Q[idx[j]]
                /\ r \in DOMAIN score[src]
                /\ score[src][r] # NaN
                /\ score[src][r] >= Q_min[j]
                /\ \A t \in 0..r-1 :
                     score[src][t] = NaN \/ score[src][t] < Q_min[j]
                /\ r < Nt[src]

\* a later iteration restarts a clone after step 0
C6_Witness ==
    /\ InLoopBody /\ k >= 1
    /\ \E j \in DOMAIN idx : restart[j] >= 1

\* the slots an iteration step must not write: all but the discard set
\* during the merge, and every slot (growth included) before it
Protected == IF pc = "merge" THEN Slots \ Range(idx) ELSE Slots
FrameStep ==
    pc \in {"select", "regen", "grow", "merge"} =>
        \A s \in Protected :
            /\ \A t \in DOMAIN traj[s] :
                 traj'[s][t] = traj[s][t] /\ score'[s][t] = score[s][t]
            /\ \A t \in (DOMAIN traj'[s]) \ (DOMAIN traj[s]) :
                 traj'[s][t] = NaN /\ score'[s][t] = NaN

\* C7: no step of an iteration changes an entry of a slot that is not in the
\* discard set; growth keeps every entry of every slot at its index and adds
\* only padding.
C7_SurvivorsUnchanged == [][FrameStep]_vars

\* the first iteration grew the storage and finished its merge, with a
\* survivor holding data
C7_Witness ==
    /\ pc = "merge" /\ i = len(idx) /\ k = 0
    /\ Shape1(traj) > GenT
    /\ \E s \in Range(other_idx) : Nt[s] = GenT /\ traj[s][GenT-1] # NaN

\* numerator of the product of (1 - d/n) over the discard counts d; its
\* denominator is n^Len(d)
RECURSIVE SurvivorProduct(_, _)
SurvivorProduct(d, n) ==
    IF d = << >> THEN 1 ELSE (n - Head(d)) * SurvivorProduct(Tail(d), n)
RECURSIVE Power(_, _)
Power(n, e) == IF e = 0 THEN 1 ELSE n * Power(n, e - 1)

\* C8: the result holds iterations = number of executed iterations,
\* nb_transitions = c = number of slots with final Q >= zmax, and
\* probability = w * c / N with w the product over the executed iterations of
\* (1 - len(idx_k)/N).
C8_ResultIsWeightTimesFraction ==
    pc = "done" =>
        LET c  == Cardinality({s \in Slots : Q[s] >= zmax})
            pn == SurvivorProduct(discards, N_traj)
            pd == Power(N_traj, Len(discards))
        IN  /\ result.iterations = Len(discards)
            /\ result.iterations = k
            /\ result.nb_transitions = c
            /\ w.num * pd = pn * w.den
            /\ result.probability.num * (pd * N_traj)
                 = (pn * c) * result.probability.den

\* run returned after two iterations with a transition counted
C8_Witness ==
    /\ pc = "done"
    /\ result.iterations >= 2
    /\ result.nb_transitions >= 1
    /\ result.nb_transitions < N_traj

\* C9: for any N, any nc and any generator, a returned probability is in
\* [0, 1].
C9_ProbabilityInUnitInterval ==
    pc = "done" =>
        /\ result.probability.den > 0
        /\ result.probability.num >= 0
        /\ result.probability.num <= result.probability.den

\* run returned probability 1 under a configuration outside 1 <= nc < N
C9_Witness ==
    /\ pc = "done"
    /\ nc >= N_traj
    /\ result.probability.num = result.probability.den

\* C10: after the initial scoring and after every iteration, a step in the
\* start region has score 0 and a step in the target region has score 1.
C10_RegionsOverrideScore ==
    pc \in {"test", "select", "count", "done"} =>
        \A s \in Slots :
            \A t \in DOMAIN traj[s] :
                /\ is_on(traj[s][t]) => score[s][t] = 0
                /\ is_off(traj[s][t]) => score[s][t] = ScoreOne

\* an iteration has ended with a freshly generated step in the target
\* region, where the raw score is not 1
C10_Witness ==
    /\ pc = "test" /\ k >= 1
    /\ \E j \in DOMAIN idx :
         \E t \in DOMAIN traj[idx[j]] :
            /\ t > restart[j]
            /\ t < restart[j] + new_nt[j]
            /\ is_off(traj[idx[j]][t])
            /\ comp_score(traj[idx[j]][t]) # ScoreOne

\* the states between iterations: after the initial scoring, after every
\* iteration, and on return
BetweenIterations == pc \in {"test", "select", "count", "done"}

\* the defined steps of a row are exactly 0..n-1
DefinedOn(row, n) == \A t \in DOMAIN row : (row[t] # NaN) <=> (t < n)

\* C11: with a generator whose paths are defined on a contiguous prefix,
\* after the initial generation and after every iteration the defined steps
\* of every slot's trajectory and score series form a non-empty prefix
\* starting at step 0.
C11_DefinedStepsFormPrefix ==
    BetweenIterations =>
        \A s \in Slots :
            \E n \in 1..Shape1(traj) :
                DefinedOn(traj[s], n) /\ DefinedOn(score[s], n)

\* an iteration has ended with a regenerated slot that is longer than any
\* generated path and another slot that still ends in padding
C11_Witness ==
    /\ pc = "test" /\ k >= 1
    /\ Shape1(traj) > GenT
    /\ \E j \in DOMAIN idx : traj[idx[j]][GenT] # NaN
    /\ \E s \in Slots : traj[s][GenT-1] = NaN

StorageShape ==
    pc # "start" =>
        /\ DOMAIN traj = Slots /\ DOMAIN score = Slots
        /\ \A s \in Slots :
             /\ DOMAIN traj[s] = 0..Shape1(traj)-1
             /\ DOMAIN score[s] = 0..Shape1(traj)-1
MergeWritesInside ==
    pc = "merge" =>
        \A j \in DOMAIN idx : restart[j] + new_nt[j] <= Shape1(traj)
StorageNeverShrinks == pc # "start" => Shape1(traj') >= Shape1(traj)

\* C12: traj and score always hold N rows of one common allocated length,
\* the allocated length never decreases, and every merge store ends inside
\* the allocated length (restart + new_nt <= traj.shape[1]).
C12_StorageAlignedAndGrowing ==
    /\ [](StorageShape /\ MergeWritesInside)
    /\ [][StorageNeverShrinks]_vars

\* a merge is about to store a clone that fills the storage just grown for it
C12_Witness ==
    /\ pc = "merge" /\ i < len(idx)
    /\ Shape1(traj) > GenT
    /\ restart[i] + new_nt[i] = Shape1(traj)

\* the configuration violates 1 <= nc < N
BadConfiguration == nc >= N_traj \/ nc < 1

\* C13: with nc >= N or nc < 1 the run is rejected before the generator is
\* called for the first time (no ensemble is ever generated) and no result
\* record is returned.
C13_BadConfigurationRejectedBeforeGeneration ==
    BadConfiguration => (traj = None /\ result = None)

\* some trajectory handed back by the generator is undefined from step 0
Degenerate ==
    \/ \E s \in DOMAIN traj : traj[s][0] = NaN
    \/ \E j \in DOMAIN new_traj : new_traj[j][0] = NaN

\* C14: once the generator has produced a trajectory that is undefined from
\* step 0, the run is in the error state (DegenerateTrajectoryError), no
\* result record exists, and that trajectory's length is not taken to be
\* the full allocated length.
C14_DegenerateTrajectoryRejected ==
    Degenerate =>
        /\ pc = "error" /\ err = "DegenerateTrajectoryError"
        /\ result = None
        /\ \A s \in DOMAIN Nt : traj[s][0] = NaN => Nt[s] # Shape1(traj)

\* the initial ensemble has at most nc distinct Q values
InitiallyConverged ==
    k = 0 /\ pc \in {"test", "count"} /\ Cardinality(QValues) <= nc
ReturnsUntouched ==
    InitiallyConverged =>
        /\ pc' \in {"count", "done"}
        /\ traj' = traj /\ score' = score /\ Q' = Q
        /\ k' = 0 /\ w' = w
        /\ new_traj' = None /\ new_ind' = None
ImmediateResult ==
    (pc = "done" /\ k = 0) =>
        /\ Cardinality(QValues) <= nc
        /\ result.iterations = 0
        /\ w = [num |-> 1, den |-> 1]
        /\ new_traj = None /\ new_ind = None /\ discards = << >>
        /\ result.probability.num * N_traj
             = Cardinality({s \in Slots : Ge(Q[s], zmax)})
                 * result.probability.den

\* C15: when the initial ensemble has at most nc distinct Q values the run
\* goes straight to the result: iterations = 0 and weight 1, the generator
\* is not called again (new_traj stays unset), nothing is drawn from rng
\* (new_ind stays unset), no slot of traj or score changes, and the
\* probability is (number of slots with Q >= zmax) / N.
C15_ConvergedEnsembleReturnsAtOnce ==
    /\ [][ReturnsUntouched]_vars
    /\ []ImmediateResult

\* N = 3, nc = 2 and all three Q equal: the run has returned at iteration 0
C15_Witness ==
    /\ pc = "done" /\ k = 0
    /\ N_traj = 3 /\ nc = 2
    /\ Cardinality(QValues) = 1

\* N = 4, nc = 1 and the deterministic generator takes every one of the four
\* trajectories into the target region, so all four have the same Q = 1
ConvergedScenario ==
    /\ N_traj = 4 /\ nc = 1 /\ gen = "counter" /\ zmax = ScoreOne
    /\ \A s \in Slots :
         \E t \in 0..GenT-1 : is_off(CounterPath(init_state[s])[t])

\* C16 as stated: in the scenario the run returns iterations = 1 and
\* probability 1.0.
C16_ConvergedScenarioTakesOneIteration ==
    (ConvergedScenario /\ pc = "done") =>
        /\ result.iterations = 1
        /\ result.probability.num = result.probability.den

\* C16: in the scenario (N = 4, nc = 1, all four trajectories reach the
\* target, one distinct Q) the loop body is never entered and the run
\* returns iterations = 0 with probability 1.0.
C16_ConvergedScenarioTakesNoIteration ==
    ConvergedScenario =>
        /\ pc \in {"start", "test", "count", "done"}
        /\ k = 0
        /\ pc = "done" =>
             /\ result.iterations = 0
             /\ result.probability.num = result.probability.den
             /\ result.nb_transitions = 4

\* the scenario has run to its result with all four Q at the target score
C16_Witness ==
    /\ ConvergedScenario /\ pc = "done"
    /\ \A s \in Slots : Q[s] = ScoreOne

\* C17: whenever the loop body runs (1 <= nc < N), idx and other_idx are
\* disjoint and together hold every slot once, both are non-empty,
\* len(idx) >= nc, and every clone source is in other_idx, hence has a Q
\* strictly greater than the Q of every discarded trajectory.
C17_DiscardsAndSourcesPartitionSlots ==
    InLoopBody =>
        /\ Range(idx) \cap Range(other_idx) = {}
        /\ Range(idx) \cup Range(other_idx) = Slots
        /\ Cardinality(Range(idx)) = len(idx)
        /\ Cardinality(Range(other_idx)) = len(other_idx)
        /\ len(idx) >= nc /\ len(idx) >= 1 /\ len(other_idx) >= 1
        /\ DOMAIN new_ind = DOMAIN idx
        /\ \A j \in DOMAIN new_ind :
             /\ new_ind[j] \in Range(other_idx)
             /\ \A d \in Range(idx) : Q[new_ind[j]] > Q[d]

\* two tied trajectories are discarded with nc = 1 and cloned from the one
\* remaining source, in a second or later iteration
C17_Witness ==
    /\ InLoopBody /\ k >= 1
    /\ nc = 1 /\ len(idx) = 2 /\ len(other_idx) = 1

\* what steps 5-8 computed is what the ensemble at the start of the
\* iteration determines (Q and the source rows are still those)
FromStartOfIteration ==
    InLoopBody =>
        /\ threshold = unique(Q)[nc - 1]
        /\ idx = flatnonzero({s \in Slots : Le(Q[s], threshold)})
        /\ other_idx = flatnonzero({s \in Slots : Gt(Q[s], threshold)})
        /\ \A j \in DOMAIN idx :
             /\ Q_min[j] = Q[idx[j]]
             /\ new_ind[j] \in Range(other_idx)
             /\ new_ind[j] \notin Range(idx)
             /\ restart[j] = FirstReach(score[new_ind[j]], Q[idx[j]])
             /\ init_clone[j] = traj[new_ind[j]][restart[j]]
SelectionFrozen ==
    InLoopBody =>
        UNCHANGED << threshold, idx, other_idx, Q_min, new_ind, restart,
                     init_clone >>
QOnlyAfterLastMerge ==
    (pc # "start" /\ Q' # Q) =>
        /\ pc = "merge" /\ i = len(idx) /\ pc' = "test"
        /\ Q' = [s \in Slots |-> nanmax(score[s])]
        /\ traj' = traj /\ score' = score

\* C18: steps 5-10 act as one step: threshold, discard set, sources,
\* restart indices and restart states are those determined by the ensemble
\* at the start of the iteration and stay fixed through the merge, no slot
\* written by the merge is a clone source of the same iteration, and Q is
\* recomputed only once every regenerated slot has been merged.
C18_IterationIsAtomic ==
    /\ []FromStartOfIteration
    /\ [][SelectionFrozen /\ QOnlyAfterLastMerge]_vars

\* two slots have been merged and one of them already holds a score above
\* its Q, which has not been recomputed yet
C18_Witness ==
    /\ pc = "merge" /\ i = len(idx) /\ len(idx) = 2
    /\ \E j \in DOMAIN idx : nanmax(score[idx[j]]) > Q[idx[j]]

QNeverDecreases ==
    pc # "start" =>
        /\ DOMAIN Q' = DOMAIN Q
        /\ \A s \in Slots : Ge(Q'[s], Q[s])
        /\ Min({Q'[s] : s \in Slots}) >= Min(QValues)
IterationRaisesQ ==
    (pc = "merge" /\ pc' = "test") =>
        /\ \A s \in Slots \ Range(idx) : Q'[s] = Q[s]
        /\ \A j \in DOMAIN idx : Q'[idx[j]] >= Q_min[j]

\* C19: across an iteration the Q of every slot is non-decreasing: a
\* survivor keeps its Q, a regenerated slot gets a Q at least the Q it
\* replaced; so the minimum Q of the ensemble never decreases.
C19_QNonDecreasing == [][QNeverDecreases /\ IterationRaisesQ]_vars

\* an iteration has ended in which one regenerated slot got a strictly
\* greater Q and another kept exactly the Q it replaced
C19_Witness ==
    /\ pc = "test" /\ k >= 1
    /\ \E j \in DOMAIN idx : Q[idx[j]] > Q_min[j]
    /\ \E j \in DOMAIN idx : Q[idx[j]] = Q_min[j]
============================================================================
